---- MODULE Spec2Model ----
(***************************************************************************)
(* Model of pincode_bot.py: the pincode lookup (search_pincode), the text  *)
(* and document renderers (format_result, create_pdf) and the three        *)
(* Telegram handlers (start, handle_search, export_pdf) with the state     *)
(* they share: the dataset df, the per-user user_data dictionaries, the    *)
(* files in the working directory and the export buttons left in chats.    *)
(*                                                                         *)
(* Text is a sequence of one-character strings.  A nullable value (an      *)
(* optional index, a NaN coordinate) is a sequence of length 0 or 1.       *)
(***************************************************************************)
EXTENDS Integers, Sequences, FiniteSets, TLC

VARIABLES df, user_data, files, buttons, last, sent

vars == <<df, user_data, files, buttons, last, sent>>

(* ------------------------------ bounds --------------------------------- *)

\* longest query text enumerated for search_pincode
MaxQueryLen == 2
\* longest dataset enumerated for search_pincode
MaxLen == 3
\* longest record list enumerated for create_pdf, and longest dataset served
\* by the handlers
MaxRows == 6

(* ------------------------------- text ---------------------------------- *)

Digits == <<"0", "1", "2", "3", "4", "5", "6", "7", "8", "9">>

\* the characters query texts are drawn from
Alphabet == {"a", "A", "b", ".", "(", "1", "0", "-", " "}

Texts(n) == UNION {[1..k -> Alphabet] : k \in 0..n}

IsDigit(c) == \E d \in 1..Len(Digits) : Digits[d] = c

DigitValue(c) == (CHOOSE d \in 1..Len(Digits) : Digits[d] = c) - 1

\* str(n) for a non-negative integer
RECURSIVE IntToStr(_)
IntToStr(n) ==
    IF n < 10 THEN <<Digits[n + 1]>>
    ELSE IntToStr(n \div 10) \o <<Digits[(n % 10) + 1]>>

\* str(x) for a non-negative float held in hundredths: 2863 is 28.63,
\* 2860 is 28.6, 2800 is 28.0
FloatToStr(h) ==
    LET frac == h % 100
    IN  IntToStr(h \div 100) \o <<".">> \o
        (IF frac % 10 = 0 THEN <<Digits[(frac \div 10) + 1]>>
         ELSE <<Digits[(frac \div 10) + 1], Digits[(frac % 10) + 1]>>)

\* str.lower()
lower(s) == [i \in 1..Len(s) |-> IF s[i] = "A" THEN "a" ELSE s[i]]

\* str.strip()
strip(s) ==
    LET keep == {i \in 1..Len(s) : s[i] # " "}
    IN  IF keep = {} THEN <<>>
        ELSE SubSeq(s, CHOOSE i \in keep : \A j \in keep : i <= j,
                       CHOOSE i \in keep : \A j \in keep : j <= i)

\* the value of a run of decimal digits
RECURSIVE DigitsValue(_)
DigitsValue(s) ==
    IF s = <<>> THEN 0
    ELSE 10 * DigitsValue(SubSeq(s, 1, Len(s) - 1)) + DigitValue(s[Len(s)])

\* int(query): surrounding whitespace is dropped, then an optional sign and
\* at least one digit; anything else is a ValueError
int_body(query) ==
    LET t == strip(query)
    IN  IF t # <<>> /\ t[1] \in {"-", "+"} THEN Tail(t) ELSE t

int_raises(query) ==
    LET b == int_body(query)
    IN  b = <<>> \/ \E i \in 1..Len(b) : ~IsDigit(b[i])

\* int(query) with the sign dropped
int_unsigned(query) == DigitsValue(int_body(query))

int(query) ==
    LET t == strip(query)
        v == DigitsValue(int_body(query))
    IN  IF t[1] = "-" THEN 0 - v ELSE v

\* Series.str.contains(pat) has regex=True: pat is compiled as a regular
\* expression.  Of Alphabet, "(" opens a group that nothing closes (re.error)
\* and "." matches any character; every other character matches itself.
re_error(pat) == \E i \in 1..Len(pat) : pat[i] = "("

re_search(pat, s) ==
    \E i \in 0..(Len(s) - Len(pat)) :
        \A j \in 1..Len(pat) : pat[j] = "." \/ pat[j] = s[i + j]

(* ------------------------------ dataset -------------------------------- *)

Record(pin, office, dist, state, lat, lon) ==
    [circlename |-> <<"C">>, regionname |-> <<"R">>, divisionname |-> <<"D">>,
     officename |-> office, pincode |-> pin, officetype |-> <<"B", "O">>,
     delivery |-> <<"Y">>, district |-> dist, statename |-> state,
     latitude |-> lat, longitude |-> lon]

\* the rows datasets are built from: every combination of present and absent
\* coordinates, names in mixed case, names holding "." and "("
Pool ==
    << Record(11, <<"a", "A">>, <<"b">>, <<"b">>, <<2863>>, <<7721>>),
       Record(10, <<"b">>, <<"a", ".">>, <<"b">>, <<>>, <<7700>>),
       Record(11, <<"b">>, <<"b">>, <<"A", "1">>, <<2800>>, <<>>),
       Record(1, <<"b", "(">>, <<"b">>, <<"b">>, <<>>, <<>>) >>

PoolSet == {Pool[i] : i \in 1..Len(Pool)}

RecordLists(n) == UNION {[1..k -> PoolSet] : k \in 0..n}

\* the dataset of n rows the handlers serve
Table(n) == [i \in 1..n |-> Pool[((i - 1) % Len(Pool)) + 1]]

(* --------------------------- search_pincode ---------------------------- *)

\* df[df['pincode'] == pincode]
pincode_rows(pincode) == SelectSeq(df, LAMBDA r : r.pincode = pincode)

\* df[officename contains | district contains | statename contains]
location_rows(query) ==
    SelectSeq(df, LAMBDA r : \/ re_search(query, lower(r.officename))
                             \/ re_search(query, lower(r.district))
                             \/ re_search(query, lower(r.statename)))

\* the body of the outer try: the rows found, or the exception raised
search_try(query) ==
    IF ~int_raises(query)
    THEN [exc |-> FALSE, rows |-> pincode_rows(int(query))]
    ELSE IF re_error(lower(query))
         THEN [exc |-> TRUE, rows |-> <<>>]
         ELSE [exc |-> FALSE, rows |-> location_rows(lower(query))]

\* search_pincode without the outer except clause
search_pincode_uncaught(query) ==
    [raised |-> search_try(query).exc, rows |-> search_try(query).rows]

\* what search_pincode hands to its caller: `raised` says an exception left it
search_pincode(query) ==
    LET t == search_try(query)
    IN  IF t.exc THEN [raised |-> FALSE, rows |-> <<>>]
        ELSE [raised |-> FALSE, rows |-> t.rows]

(* ----------------------------- rendering ------------------------------- *)

\* ICONS: the key of the glyph put before each field
ICONS ==
    [pincode |-> "pushpin", office |-> "office", type |-> "label",
     delivery |-> "package", circle |-> "blue_circle", region |-> "world_map",
     division |-> "classical_building", district |-> "round_pushpin",
     state |-> "white_flag", location |-> "globe"]

notna(x) == x # <<>>

\* f"{x}" for a coordinate: a NaN is written "nan"
coord_text(x) == IF x = <<>> THEN <<"n", "a", "n">> ELSE FloatToStr(x[1])

maps_url(lat, lon) ==
    <<"https://www.google.com/maps?q=">> \o coord_text(lat) \o <<",">> \o
    coord_text(lon)

Line(icon, label, value) == [icon |-> icon, label |-> label, value |-> value]

\* the Google Maps line written when either coordinate is present
map_line_anyCoord(result) ==
    IF notna(result.latitude) \/ notna(result.longitude)
    THEN <<Line(ICONS.location, "View on Google Maps",
                maps_url(result.latitude, result.longitude))>>
    ELSE <<>>

\* the Google Maps line of format_result: none, or one
map_line(result) ==
    IF notna(result.latitude) /\ notna(result.longitude)
    THEN <<Line(ICONS.location, "View on Google Maps",
                maps_url(result.latitude, result.longitude))>>
    ELSE <<>>

\* format_result(result, index): the lines joined by "\n"; index is <<>> for
\* None and <<i>> for i
format_result(result, index) ==
    (IF index # <<>>
     THEN <<Line("small_blue_diamond", "Result", IntToStr(index[1] + 1))>>
     ELSE <<>>) \o
    << Line(ICONS.pincode, "Pincode", IntToStr(result.pincode)),
       Line(ICONS.office, "Office", result.officename),
       Line(ICONS.type, "Type", result.officetype),
       Line(ICONS.delivery, "Delivery", result.delivery),
       Line(ICONS.circle, "Circle", result.circlename),
       Line(ICONS.region, "Region", result.regionname),
       Line(ICONS.division, "Division", result.divisionname),
       Line(ICONS.district, "District", result.district),
       Line(ICONS.state, "State", result.statename) >> \o
    map_line(result)

Cell(label, value) == [label |-> label, value |-> value]

\* the Google Maps cell of create_pdf: none, or one
pdf_map_cell(result) ==
    IF notna(result.latitude) /\ notna(result.longitude)
    THEN <<Cell("Google Maps", maps_url(result.latitude, result.longitude))>>
    ELSE <<>>

\* the cells create_pdf writes for results[i], up to the pdf.ln(5) after them
pdf_block(result, i) ==
    << Cell("Result", IntToStr(i + 1)),
       Cell("Pincode", IntToStr(result.pincode)),
       Cell("Office", result.officename),
       Cell("Type", result.officetype),
       Cell("Delivery", result.delivery),
       Cell("Circle", result.circlename),
       Cell("Region", result.regionname),
       Cell("Division", result.divisionname),
       Cell("District", result.district),
       Cell("State", result.statename) >> \o
    pdf_map_cell(result)

pdf_path(query) == <<"pincode_results_">> \o query \o <<".pdf">>

\* create_pdf with the chat's cap of five put on the document too
create_pdf_capped(results, query) ==
    [path |-> pdf_path(query),
     title |-> "Indian Pincode Search Results",
     query |-> query,
     blocks |-> [i \in 1..(IF Len(results) < 5 THEN Len(results) ELSE 5) |->
                    pdf_block(results[i], i - 1)]]

\* create_pdf(results, query): the document written and the path it is
\* written to
create_pdf(results, query) ==
    [path |-> pdf_path(query),
     title |-> "Indian Pincode Search Results",
     query |-> query,
     blocks |-> [i \in 1..Len(results) |-> pdf_block(results[i], i - 1)]]

(* ------------------------------ handlers ------------------------------- *)

\* the number of results handle_search renders in chat: results[:5]
ChatLimit == 5

NoDict == [k \in {} |-> <<>>]

Users == {"u1", "u2"}

\* the message texts a user may send: a location name, a pincode with a
\* space before it, a text that is no valid pattern, a blank text
SearchTexts == {<<"b">>, <<" ", "1", "1">>, <<"(">>, <<"a", "(">>, <<" ">>}

\* how the file system and the transport answer one export
Outcomes == {"ok", "pdf_error", "send_error"}

\* dict.get(key, default)
dict_get(d, key, default) == IF key \in DOMAIN d THEN d[key] ELSE default

\* d[key] = value
dict_set(d, key, value) ==
    [k \in DOMAIN d \cup {key} |-> IF k = key THEN value ELSE d[k]]

TextMsg(body) == [method |-> "reply_text", body |-> body]

\* f"pdf_export:{query}"
callback_data(query) ==
    <<"p", "d", "f", "_", "e", "x", "p", "o", "r", "t", ":">> \o query

\* data.split(':', 1)[1]
split_1(data) ==
    LET colons == {i \in 1..Len(data) : data[i] = ":"}
        first == CHOOSE i \in colons : \A k \in colons : i <= k
    IN  SubSeq(data, first + 1, Len(data))

\* export_pdf without the test of what it read
no_results_never(results) == FALSE

\* export_pdf's test of what it read from user_data: `if not results`
no_results(results) == results = <<>>

\* a store that keeps the session already there
store_results_keepFirst(d, query, results) ==
    IF "last_results" \in DOMAIN d THEN d
    ELSE [k \in {"last_results", "last_query"} |->
             IF k = "last_results" THEN results ELSE query]

\* the user_data of handle_search's requester once the results are stored
store_results(d, query, results) ==
    dict_set(dict_set(d, "last_results", results), "last_query", query)

\* the reply to results[i] of handle_search's loop over results[:5]
result_reply(results, query, i) ==
    LET shown == IF Len(results) < ChatLimit THEN Len(results) ELSE ChatLimit
        final == (i = shown - 1)
    IN  [method |-> "reply_text",
         lines |-> format_result(results[i + 1], <<i>>),
         showing |-> IF final /\ Len(results) > ChatLimit
                     THEN <<ChatLimit, Len(results)>> ELSE <<>>,
         export_prompt |-> final,
         reply_markup |-> IF final THEN <<callback_data(query)>> ELSE <<>>]

\* the replies of a loop over results instead of results[:5]
search_replies_uncapped(results, query) ==
    [k \in 1..Len(results) |-> result_reply(results, query, k - 1)] \o
    (IF Len(results) > ChatLimit
     THEN <<[method |-> "reply_text", body |-> "There are more results",
             total |-> Len(results)]>>
     ELSE <<>>)

\* every reply_text of handle_search for a non-empty result list
search_replies(results, query) ==
    LET shown == IF Len(results) < ChatLimit THEN Len(results) ELSE ChatLimit
    IN  [k \in 1..shown |-> result_reply(results, query, k - 1)] \o
        (IF Len(results) > ChatLimit
         THEN <<[method |-> "reply_text", body |-> "There are more results",
                 total |-> Len(results)]>>
         ELSE <<>>)

\* error_handler's reply when an exception leaves a handler
error_reply ==
    TextMsg("Sorry, something went wrong. Please try again later or with a different query.")

\* start
Start(u) ==
    /\ sent' = <<[method |-> "reply_text", body |-> "Indian Pincode Search Bot",
                  parse_mode |-> "HTML"]>>
    /\ last' = [op |-> "start", user |-> u]
    /\ UNCHANGED <<df, user_data, files, buttons>>

\* handle_search, for the message `text` of user u
HandleSearch(u, text) ==
    LET query == strip(text)
        found == search_pincode(query)
        results == found.rows
    IN  IF query = <<>>
        THEN /\ sent' = <<TextMsg("Please enter a pincode or location name to search.")>>
             /\ last' = [op |-> "handle_search", user |-> u, text |-> text,
                         stage |-> "blank", results |-> <<>>, raised |-> FALSE]
             /\ UNCHANGED <<df, user_data, files, buttons>>
        ELSE IF found.raised
        THEN /\ sent' = <<error_reply>>
             /\ last' = [op |-> "handle_search", user |-> u, text |-> text,
                         stage |-> "search", results |-> <<>>, raised |-> TRUE]
             /\ UNCHANGED <<df, user_data, files, buttons>>
        ELSE IF results = <<>>
        THEN /\ sent' = <<TextMsg("No results found. Please try a different query.")>>
             /\ last' = [op |-> "handle_search", user |-> u, text |-> text,
                         stage |-> "search", results |-> <<>>, raised |-> FALSE]
             /\ UNCHANGED <<df, user_data, files, buttons>>
        ELSE /\ user_data' = [user_data EXCEPT
                                 ![u] = store_results(@, query, results)]
             /\ sent' = search_replies(results, query)
             /\ buttons' = [buttons EXCEPT ![u] = @ \cup {callback_data(query)}]
             /\ last' = [op |-> "handle_search", user |-> u, text |-> text,
                         stage |-> "search", results |-> results,
                         raised |-> FALSE]
             /\ UNCHANGED <<df, files>>

\* the files left once export_pdf's try statement is over
files_after_export(path, outcome) ==
    IF outcome = "ok" THEN (files \cup {path}) \ {path}
    ELSE IF outcome = "send_error" THEN files \cup {path}
    ELSE files

\* what export_pdf sends once its try statement is over
export_replies(results, original_query, outcome) ==
    IF outcome = "ok"
    THEN <<[method |-> "reply_document",
            document |-> create_pdf(results, original_query),
            caption |-> original_query,
            filename |-> pdf_path(original_query)]>>
    ELSE <<TextMsg("Sorry, there was an error generating the PDF. Please try again.")>>

\* export_pdf, for user u pressing the button that carries `data`; outcome
\* says whether create_pdf and the hand-off of the file succeed
ExportPdf(u, data, outcome) ==
    LET original_query == split_1(data)
        results == dict_get(user_data[u], "last_results", <<>>)
    IN  /\ data \in buttons[u]
        /\ IF no_results(results)
           THEN /\ sent' = <<[method |-> "edit_message_text",
                              body |-> "Sorry, I couldn't find those results anymore. Please perform a new search."]>>
                /\ last' = [op |-> "export_pdf", user |-> u, data |-> data,
                            results |-> <<>>, outcome |-> "none",
                            raised |-> FALSE]
                /\ UNCHANGED files
           ELSE /\ sent' = export_replies(results, original_query, outcome)
                /\ files' = files_after_export(pdf_path(original_query), outcome)
                /\ last' = [op |-> "export_pdf", user |-> u, data |-> data,
                            results |-> results, outcome |-> outcome,
                            raised |-> FALSE]
        /\ UNCHANGED <<df, user_data, buttons>>

\* main: the process starts again; user_data lives in the Updater's memory,
\* the files and the buttons already sent outlive it
Restart ==
    /\ user_data' = [u \in Users |-> NoDict]
    /\ sent' = <<>>
    /\ last' = [op |-> "main"]
    /\ UNCHANGED <<df, files, buttons>>

Init ==
    /\ df \in {Table(n) : n \in 0..MaxRows}
    /\ user_data = [u \in Users |-> NoDict]
    /\ files = {}
    /\ buttons = [u \in Users |-> {}]
    /\ last = [op |-> "main"]
    /\ sent = <<>>

Next ==
    \/ \E u \in Users : Start(u)
    \/ \E u \in Users, text \in SearchTexts : HandleSearch(u, text)
    \/ \E u \in Users, outcome \in Outcomes :
          \E data \in buttons[u] : ExportPdf(u, data, outcome)
    \/ Restart

Spec == Init /\ [][Next]_vars

(* ------------------- search_pincode on enumerated inputs --------------- *)

InitSearch ==
    /\ df \in RecordLists(MaxLen)
    /\ user_data = [u \in Users |-> NoDict]
    /\ files = {}
    /\ buttons = [u \in Users |-> {}]
    /\ last \in {[op |-> "input", query |-> q] : q \in Texts(MaxQueryLen)}
    /\ sent = <<>>

CallSearch ==
    /\ last.op = "input"
    /\ last' = [op |-> "search_pincode", query |-> last.query,
                ret |-> search_pincode(last.query)]
    /\ UNCHANGED <<df, user_data, files, buttons, sent>>

NextSearch == CallSearch

SpecSearch == InitSearch /\ [][NextSearch]_vars

(* ------------- format_result, create_pdf on enumerated inputs ---------- *)

InitFormat ==
    /\ df = <<>>
    /\ user_data = [u \in Users |-> NoDict]
    /\ files = {}
    /\ buttons = [u \in Users |-> {}]
    /\ last \in {[op |-> "input", results |-> rs, query |-> q] :
                    rs \in RecordLists(MaxRows), q \in {<<"b">>, <<"1", "1">>}}
    /\ sent = <<>>

CallFormatResult ==
    /\ last.op = "input"
    /\ \E i \in 1..Len(last.results) : \E index \in {<<>>, <<i - 1>>} :
          last' = [op |-> "format_result", result |-> last.results[i],
                   index |-> index,
                   ret |-> format_result(last.results[i], index)]
    /\ UNCHANGED <<df, user_data, files, buttons, sent>>

CallCreatePdf ==
    /\ last.op = "input"
    /\ last' = [op |-> "create_pdf", results |-> last.results,
                query |-> last.query,
                ret |-> create_pdf(last.results, last.query)]
    /\ UNCHANGED <<df, user_data, files, buttons, sent>>

NextFormat == CallFormatResult \/ CallCreatePdf

SpecFormat == InitFormat /\ [][NextFormat]_vars

(* ------------------------------- claims -------------------------------- *)

\* the path of the file the last export wrote, or would have written
ExportPath == pdf_path(split_1(last.data))

\* C1: when an export that reached create_pdf has returned, the temporary
\* file is gone, whether the hand-off succeeded or failed.
C1_TempFileRemoved ==
    (last.op = "export_pdf" /\ last.outcome # "none") => ExportPath \notin files

\* C2 as stated: after every search handle_search ran for a user, that user's
\* stored results and query are those of that search.
C2_EverySearchOverwrites ==
    (last.op = "handle_search" /\ last.stage = "search") =>
        LET d == user_data[last.user]
        IN  /\ dict_get(d, "last_results", <<>>) = last.results
            /\ "last_query" \in DOMAIN d => d["last_query"] = strip(last.text)

\* C2 as amended: a search that finds at least one record overwrites the
\* requester's session with its stripped query and its full result list; a
\* search that finds none, a blank text, and every search of another user
\* leave the session as it was.
C2_SearchWithHitsOverwrites ==
    [][last'.op = "handle_search" =>
          \A u \in Users :
              IF u = last'.user /\ last'.stage = "search"
                               /\ search_try(strip(last'.text)).rows # <<>>
              THEN /\ DOMAIN user_data'[u] = {"last_results", "last_query"}
                   /\ user_data'[u]["last_query"] = strip(last'.text)
                   /\ user_data'[u]["last_results"] =
                          search_try(strip(last'.text)).rows
              ELSE user_data'[u] = user_data[u]]_vars

\* C2 witness: a second search with results has replaced the session of a
\* first one by the same user.
C2_Witness ==
    /\ last.op = "handle_search"
    /\ last.text = <<" ", "1", "1">>
    /\ callback_data(<<"b">>) \in buttons[last.user]
    /\ "last_query" \in DOMAIN user_data[last.user]
    /\ user_data[last.user]["last_query"] = <<"1", "1">>
    /\ Len(user_data[last.user]["last_results"]) >= 2

IsResultMsg(m) == m.method = "reply_text" /\ "lines" \in DOMAIN m

\* C3 as stated: more than 5 records give exactly 5 text messages, the last
\* with the "Showing 5 of n" notice; n <= 5 records give n; never more than 5.
C3_AtMostFiveMessages ==
    (last.op = "handle_search" /\ last.results # <<>>) =>
        LET n == Len(last.results)
        IN  /\ Len(sent) <= 5
            /\ n > 5 => Len(sent) = 5 /\ sent[5].showing = <<5, n>>
            /\ n <= 5 => Len(sent) = n

\* C3 as amended: more than 5 records give exactly 5 result messages, the
\* fifth with the "Showing 5 of n" notice, and then one more text message,
\* "There are more results (n total)": 6 reply_text calls; 1 <= n <= 5 records
\* give exactly n result messages and nothing else.
C3_FiveResultsThenNote ==
    (last.op = "handle_search" /\ last.results # <<>>) =>
        LET n == Len(last.results)
            shown == {k \in 1..Len(sent) : IsResultMsg(sent[k])}
        IN  /\ n > 5 =>
                /\ Len(sent) = 6
                /\ shown = 1..5
                /\ sent[5].showing = <<5, n>>
                /\ \A k \in 1..4 : sent[k].showing = <<>>
                /\ sent[6].body = "There are more results"
                /\ sent[6].total = n
            /\ n <= 5 =>
                /\ Len(sent) = n
                /\ shown = 1..n
                /\ \A k \in 1..n : sent[k].showing = <<>>
            /\ \A k \in shown : sent[k].lines[1].value = IntToStr(k)

\* C3 witness: a search with more than 5 records has been answered.
C3_Witness ==
    /\ last.op = "handle_search"
    /\ Len(last.results) > 5
    /\ Len(sent) = 6
    /\ sent[5].showing = <<5, Len(last.results)>>

\* C4: an export for a requester with nothing stored sends the "please
\* perform a new search" message, writes no file, sends no document and
\* raises nothing.
C4_ExportWithoutSession ==
    [][(last'.op = "export_pdf"
            /\ dict_get(user_data[last'.user], "last_results", <<>>) = <<>>) =>
          /\ files' = files
          /\ Len(sent') = 1
          /\ sent'[1].method = "edit_message_text"
          /\ sent'[1].body = "Sorry, I couldn't find those results anymore. Please perform a new search."
          /\ ~last'.raised]_vars

\* C4 witness: an export button was pressed after the stored data was lost.
C4_Witness ==
    /\ last.op = "export_pdf"
    /\ "last_results" \notin DOMAIN user_data[last.user]
    /\ last.data \in buttons[last.user]
    /\ sent[1].method = "edit_message_text"

\* s holds p as a literal substring
Contains(s, p) ==
    \E i \in 0..(Len(s) - Len(p)) : SubSeq(s, i + 1, i + Len(p)) = p

\* the text is an integer literal: blanks, an optional sign, digits, blanks
IsIntLiteral(q) ==
    \E i \in 1..Len(q) : \E j \in i..Len(q) :
        /\ \A k \in 1..(i - 1) : q[k] = " "
        /\ \A k \in (j + 1)..Len(q) : q[k] = " "
        /\ \/ \A k \in i..j : IsDigit(q[k])
           \/ q[i] \in {"-", "+"} /\ i < j /\ \A k \in (i + 1)..j : IsDigit(q[k])

\* the digits of an integer literal
LiteralDigits(q) == SelectSeq(q, IsDigit)

RECURSIVE NoLeadingZeros(_)
NoLeadingZeros(s) ==
    IF Len(s) > 1 /\ s[1] = "0" THEN NoLeadingZeros(Tail(s)) ELSE s

\* the record's postal code is the integer the literal q denotes
HasPincode(r, q) ==
    IF \E k \in 1..Len(q) : q[k] = "-"
    THEN r.pincode = 0 /\ NoLeadingZeros(LiteralDigits(q)) = <<"0">>
    ELSE IntToStr(r.pincode) = NoLeadingZeros(LiteralDigits(q))

\* C5: a query that is no integer returns exactly the records whose office
\* name, district or state holds it as a literal substring, case ignored,
\* once each and in the dataset's order.
C5_LiteralSubstring ==
    (last.op = "search_pincode" /\ ~IsIntLiteral(last.query)) =>
        last.ret.rows =
            SelectSeq(df, LAMBDA r :
                \/ Contains(lower(r.officename), lower(last.query))
                \/ Contains(lower(r.district), lower(last.query))
                \/ Contains(lower(r.statename), lower(last.query)))

\* C6: an integer literal returns exactly the records whose postal code is
\* the integer it denotes, in the dataset's order, and the empty sequence
\* when there is none.
C6_PincodeMatch ==
    (last.op = "search_pincode" /\ IsIntLiteral(last.query)) =>
        /\ ~last.ret.raised
        /\ last.ret.rows = SelectSeq(df, LAMBDA r : HasPincode(r, last.query))
        /\ (\A i \in 1..Len(df) : ~HasPincode(df[i], last.query)) =>
               last.ret.rows = <<>>

\* C6 witness: a literal with a leading blank or zero found some rows of a
\* dataset and left others out.
C6_Witness ==
    /\ last.op = "search_pincode"
    /\ IsIntLiteral(last.query)
    /\ Len(last.query) > 1
    /\ last.query[1] \in {" ", "0"}
    /\ last.ret.rows # <<>>
    /\ Len(last.ret.rows) < Len(df)

\* C7: no exception leaves search_pincode; a failure inside it gives the
\* empty sequence, which handle_search answers with "No results found".
C7_SearchNeverRaises ==
    (last.op = "handle_search" /\ last.stage = "search") =>
        /\ ~last.raised
        /\ ~search_pincode(strip(last.text)).raised
        /\ search_try(strip(last.text)).exc =>
               /\ search_pincode(strip(last.text)).rows = <<>>
               /\ sent = <<TextMsg("No results found. Please try a different query.")>>

\* C7 witness: a query that failed inside the filter was answered.
C7_Witness ==
    /\ last.op = "handle_search"
    /\ last.stage = "search"
    /\ search_try(strip(last.text)).exc
    /\ Len(df) > 0
    /\ Len(sent) = 1

\* C7, for search_pincode alone, over every enumerated query (SpecSearch)
C7_PureNeverRaises ==
    last.op = "search_pincode" =>
        /\ ~last.ret.raised
        /\ search_try(last.query).exc => last.ret.rows = <<>>

FieldLabels ==
    <<"Pincode", "Office", "Type", "Delivery", "Circle", "Region", "Division",
      "District", "State">>

\* the nine field values of a record, in the order of FieldLabels, the
\* postal code read back from its decimal text
FieldsShow(lines, r) ==
    /\ Len(lines) = 9
    /\ \A k \in 1..9 : lines[k].label = FieldLabels[k]
    /\ \A c \in 1..Len(lines[1].value) : IsDigit(lines[1].value[c])
    /\ DigitsValue(lines[1].value) = r.pincode
    /\ lines[2].value = r.officename
    /\ lines[3].value = r.officetype
    /\ lines[4].value = r.delivery
    /\ lines[5].value = r.circlename
    /\ lines[6].value = r.regionname
    /\ lines[7].value = r.divisionname
    /\ lines[8].value = r.district
    /\ lines[9].value = r.statename

BothCoordinates(r) == r.latitude # <<>> /\ r.longitude # <<>>

\* C8: format_result gives the nine labelled fields in the fixed order, a
\* 1-based "Result N" header before them only when an index is given, and
\* the map line after them if and only if both coordinates are non-null.
C8_FormatResult ==
    last.op = "format_result" =>
        LET lines == last.ret
            h == IF last.index # <<>> THEN 1 ELSE 0
            m == IF BothCoordinates(last.result) THEN 1 ELSE 0
        IN  /\ Len(lines) = h + 9 + m
            /\ FieldsShow(SubSeq(lines, h + 1, h + 9), last.result)
            /\ h = 1 => /\ lines[1].label = "Result"
                        /\ lines[1].value = IntToStr(last.index[1] + 1)
            /\ m = 1 => lines[Len(lines)].label = "View on Google Maps"
            /\ \A k \in 1..Len(lines) :
                   lines[k].label = "View on Google Maps" =>
                       k = Len(lines) /\ m = 1

\* C8 witness: a record with one coordinate only was formatted with an index.
C8_Witness ==
    /\ last.op = "format_result"
    /\ last.index # <<>>
    /\ last.result.latitude # <<>>
    /\ last.result.longitude = <<>>
    /\ Len(last.ret) = 10

\* C9: create_pdf gives one block per record, in the order of the input,
\* each with the nine fields and the map line if and only if both
\* coordinates are non-null, for the empty list and for more than 5 records.
C9_OneBlockPerRecord ==
    last.op = "create_pdf" =>
        LET blocks == last.ret.blocks
        IN  /\ Len(blocks) = Len(last.results)
            /\ \A i \in 1..Len(last.results) :
                   LET m == IF BothCoordinates(last.results[i]) THEN 1 ELSE 0
                   IN  /\ Len(blocks[i]) = 10 + m
                       /\ blocks[i][1].label = "Result"
                       /\ blocks[i][1].value = IntToStr(i)
                       /\ FieldsShow(SubSeq(blocks[i], 2, 10), last.results[i])
                       /\ m = 1 => blocks[i][11].label = "Google Maps"
                       /\ \A k \in 1..Len(blocks[i]) :
                              blocks[i][k].label = "Google Maps" => m = 1

\* C9 witness: a document of more than 5 records, some with both
\* coordinates and some without.
C9_Witness ==
    /\ last.op = "create_pdf"
    /\ Len(last.results) > 5
    /\ Len(last.ret.blocks) = Len(last.results)
    /\ \E i, j \in 1..Len(last.results) :
           BothCoordinates(last.results[i]) /\ ~BothCoordinates(last.results[j])

\* C9, for export_pdf (Spec): the document sent holds every stored record
C9_ExportHoldsAll ==
    (last.op = "export_pdf" /\ last.outcome = "ok") =>
        /\ Len(sent[1].document.blocks) =
               Len(user_data[last.user]["last_results"])
        /\ \A i \in 1..Len(sent[1].document.blocks) :
               FieldsShow(SubSeq(sent[1].document.blocks[i], 2, 10),
                          user_data[last.user]["last_results"][i])

\* C10: the query a document shows, and is named after, is the query whose
\* search produced the records in it.
C10_DocumentQueryMatchesRecords ==
    (last.op = "export_pdf" /\ last.outcome = "ok") =>
        /\ sent[1].document.query = user_data[last.user]["last_query"]
        /\ sent[1].filename = pdf_path(user_data[last.user]["last_query"])

====
